---- MODULE Spec2Model ----
(***************************************************************************)
(* Magic-link server (server.js): the in-memory registry `magicLinks`, the *)
(* four request handlers that read and write it, and the cleanup timer.    *)
(* Times are milliseconds counted from the start of the process.           *)
(***************************************************************************)
EXTENDS Integers, Sequences, FiniteSets, TLC

\* ---------------------------------------------------------------- bounds
NumTokens == 2          \* distinct UUIDs the random source can hand out
MaxTicks  == 2          \* clock advances explored
MaxAccess == 2          \* successful views explored per link
MaxTasks  == 2          \* callbacks in flight at once (step-level model)

\* -------------------------------------------------------------- constants
ADMIN_SECRET == "antmeta-admin-2024"
DEFAULT_TTL_MS == 2 * 60 * 60 * 1000
CLEANUP_INTERVAL_MS == 10 * 60 * 1000
MS_PER_DAY == 24 * 60 * 60 * 1000

\* ----------------------------------------------------------------- inputs
Tokens == 1..NumTokens
Secrets == {ADMIN_SECRET, "guess"}
\* a JSON body field is either absent (undefined) or carries a value
Undefined == [present |-> FALSE, value |-> 0]
Num(n) == [present |-> TRUE, value |-> n]
Str(s) == [present |-> TRUE, value |-> s]
TtlInputs == {Undefined, Num(0), Num(-1), Num(1), Num(2)}
LabelInputs == {[present |-> FALSE, value |-> ""], Str(""), Str("Acme")}
TickSteps == {30000, DEFAULT_TTL_MS}

VARIABLES
  now,         \* Date.now()
  ticks,       \* number of clock advances so far
  magicLinks,  \* the Map, as its entries in insertion order
  issued,      \* UUIDs crypto.randomUUID() has returned
  nextSweep,   \* time at which the cleanup timer is due
  res,         \* the last response sent (or the last cleanup pass's log)
  hist,        \* per token: responses sent so far, by kind
  loop         \* the event loop: callbacks in flight and the one running

vars == <<now, ticks, magicLinks, issued, nextSweep, res, hist, loop>>

\* ------------------------------------------------------- JavaScript values
\* ToBoolean of a number field: undefined, 0 are falsy
TruthyNum(x) == x.present /\ x.value # 0
\* ToBoolean of a string field: undefined, "" are falsy
TruthyStr(x) == x.present /\ x.value # ""

\* Math.round: nearest integer, halves towards +infinity
\* Math.floor in its place
MathRound_Floor(num, den) == num \div den
MathRound(num, den) == (2 * num + den) \div (2 * den)
\* Math.ceil
MathCeil(num, den) == -((-num) \div den)

\* new Date(ms).toISOString(): the calendar day and the time within it
ToISOString(ms) == [day |-> ms \div MS_PER_DAY, msOfDay |-> ms % MS_PER_DAY]
\* Date.parse of such a string
ParseISO(iso) == iso.day * MS_PER_DAY + iso.msOfDay

\* ------------------------------------------------------------ Map methods
MapHas(m, token) == \E i \in 1..Len(m) : m[i].token = token
MapIndex(m, token) == CHOOSE i \in 1..Len(m) : m[i].token = token
MapGet(m, token) == m[MapIndex(m, token)]
\* delete that leaves the entry in place
MapDelete_Keep(m, token) == m
\* delete that drops the other entries instead
MapDelete_Others(m, token) == SelectSeq(m, LAMBDA e : e.token = token)
MapDelete(m, token) == SelectSeq(m, LAMBDA e : e.token # token)
MapSet(m, token, data) ==
  LET e == [token |-> token, createdAt |-> data.createdAt,
            expiresAt |-> data.expiresAt, label |-> data.label,
            accessCount |-> data.accessCount]
  IN IF MapHas(m, token)
       THEN [m EXCEPT ![MapIndex(m, token)] = e]
       ELSE Append(m, e)
MapKeys(m) == {m[i].token : i \in 1..Len(m)}

\* ------------------------------------------------------------------ state
TaskIds == 1..MaxTasks
\* a slot of the event loop with no callback in it
NoTask == [op |-> "none", token |-> 0, pc |-> "done", at |-> 0, exp |-> 0,
           todo |-> <<>>, cleaned |-> 0]

Init ==
  /\ now = 0
  /\ ticks = 0
  /\ magicLinks = <<>>
  /\ issued = {}
  /\ nextSweep = CLEANUP_INTERVAL_MS
  /\ res = [op |-> "none"]
  /\ hist = [t \in Tokens |->
               [ok |-> 0, expired |-> 0, revoked |-> 0, late |-> 0]]
  /\ loop = [running |-> 0, tasks |-> [id \in TaskIds |-> NoTask]]

\* the wall clock moves on between two callbacks
Tick(d) ==
  /\ ticks < MaxTicks
  /\ now' = now + d
  /\ ticks' = ticks + 1
  /\ UNCHANGED <<magicLinks, issued, nextSweep, res, hist, loop>>

\* ------------------------------------------------------ POST /api/generate
\* a gate that lets every secret through
SecretOk_Any(secret) == TRUE
SecretOk(secret) == secret = ADMIN_SECRET

\* minutes taken for seconds
ResolveTtl_Seconds(ttlMinutes) ==
  IF TruthyNum(ttlMinutes) THEN ttlMinutes.value * 1000 ELSE DEFAULT_TTL_MS
ResolveTtl(ttlMinutes) ==
  IF TruthyNum(ttlMinutes) THEN ttlMinutes.value * 60 * 1000 ELSE DEFAULT_TTL_MS

ResolveLabel(label) == IF TruthyStr(label) THEN label.value ELSE "Unnamed"

NewLink(t, ttl, label) ==
  [createdAt |-> t, expiresAt |-> t + ttl,
   label |-> ResolveLabel(label), accessCount |-> 0]

Forbidden(op) == [op |-> op, status |-> 403]

\* randomUUID(token): crypto.randomUUID() returns `token`, a UUID it has not
\* handed out before
RandomUUID(token) == token \in Tokens \ issued

Generate(secret, label, ttlMinutes) ==
  /\ IF ~SecretOk(secret)
       THEN /\ res' = Forbidden("generate")
            /\ UNCHANGED <<magicLinks, issued>>
       ELSE \E token \in Tokens :
            LET ttl == ResolveTtl(ttlMinutes) IN
            /\ RandomUUID(token)
            /\ magicLinks' = MapSet(magicLinks, token, NewLink(now, ttl, label))
            /\ issued' = issued \cup {token}
            /\ res' = [op |-> "generate", status |-> 200, token |-> token,
                       expiresAt |-> ToISOString(now + ttl),
                       ttlMinutes |-> ttl \div 60000]
  /\ UNCHANGED <<now, ticks, nextSweep, hist, loop>>

\* --------------------------------------------------------- POST /api/links
\* a filter that keeps the link whose deadline is now
IsListed_Inclusive(data, t) == data.expiresAt - t >= 0
IsListed(data, t) == data.expiresAt - t > 0

LinkView(e, t) ==
  [token |-> e.token, label |-> e.label,
   expiresAt |-> ToISOString(e.expiresAt),
   remainingMinutes |-> MathRound(e.expiresAt - t, 60000),
   accessCount |-> e.accessCount]

RECURSIVE ActiveLinks(_, _)
ActiveLinks(m, t) ==
  IF m = <<>> THEN <<>>
  ELSE IF IsListed(Head(m), t)
         THEN <<LinkView(Head(m), t)>> \o ActiveLinks(Tail(m), t)
         ELSE ActiveLinks(Tail(m), t)

\* a listing that drops the links it leaves out
ListedRegistry_Purge(m, t) == SelectSeq(m, LAMBDA e : IsListed(e, t))
\* the Map after the listing's for-of loop: the loop reads the entries only
ListedRegistry(m, t) == m

Links(secret) ==
  /\ IF ~SecretOk(secret)
       THEN /\ res' = Forbidden("links")
            /\ UNCHANGED magicLinks
       ELSE /\ res' = [op |-> "links", status |-> 200,
                       activeLinks |-> ActiveLinks(magicLinks, now)]
            /\ magicLinks' = ListedRegistry(magicLinks, now)
  /\ UNCHANGED <<now, ticks, issued, nextSweep, hist, loop>>

\* -------------------------------------------------------- POST /api/revoke
\* a revoke that turns down a link past its deadline
Revocable_Live(m, token, t) ==
  MapHas(m, token) /\ t < MapGet(m, token).expiresAt
\* magicLinks.has(token): the deadline plays no part
Revocable(m, token, t) == MapHas(m, token)

\* hist: a revoke answered 200 is counted, and counted as late when the link
\* was past its deadline
Revoked(h, m, token, t) ==
  [h EXCEPT ![token].revoked = @ + 1,
            ![token].late = IF t >= MapGet(m, token).expiresAt
                              THEN @ + 1 ELSE @]

Revoke(secret, token) ==
  /\ IF ~SecretOk(secret)
       THEN /\ res' = Forbidden("revoke")
            /\ UNCHANGED <<magicLinks, hist>>
       ELSE IF Revocable(magicLinks, token, now)
         THEN /\ magicLinks' = MapDelete(magicLinks, token)
              /\ res' = [op |-> "revoke", status |-> 200, token |-> token]
              /\ hist' = Revoked(hist, magicLinks, token, now)
         ELSE /\ res' = [op |-> "revoke", status |-> 404, token |-> token]
              /\ UNCHANGED <<magicLinks, hist>>
  /\ UNCHANGED <<now, ticks, issued, nextSweep, loop>>

\* -------------------------------------------------------- GET /view/:token
IsExpired(t, data) == t > data.expiresAt

\* a counter bumped twice per view
Increment_Twice(m, token) ==
  [m EXCEPT ![MapIndex(m, token)].accessCount = @ + 2]
\* a view that also pushes the deadline back
Increment_Renew(m, token) ==
  [m EXCEPT ![MapIndex(m, token)].accessCount = @ + 1,
            ![MapIndex(m, token)].expiresAt = @ + 60000]
\* a view counted on every link
Increment_All(m, token) ==
  [i \in 1..Len(m) |-> [m[i] EXCEPT !.accessCount = @ + 1]]
Increment(m, token) ==
  [m EXCEPT ![MapIndex(m, token)].accessCount = @ + 1]

View(token) ==
  /\ IF ~MapHas(magicLinks, token)
       THEN /\ res' = [op |-> "view", status |-> 404, token |-> token]
            /\ UNCHANGED <<magicLinks, hist>>
       ELSE LET link == MapGet(magicLinks, token) IN
         IF IsExpired(now, link)
           THEN /\ magicLinks' = MapDelete(magicLinks, token)
                /\ res' = [op |-> "view", status |-> 410, token |-> token]
                /\ hist' = [hist EXCEPT ![token].expired = @ + 1]
           ELSE /\ link.accessCount < MaxAccess
                /\ magicLinks' = Increment(magicLinks, token)
                /\ res' = [op |-> "view", status |-> 200, token |-> token,
                           mins |-> MathCeil(link.expiresAt - now, 60000),
                           exp |-> link.expiresAt]
                /\ hist' = [hist EXCEPT ![token].ok = @ + 1]
  /\ UNCHANGED <<now, ticks, issued, nextSweep, loop>>

\* ------------------------------------------------- setInterval(cleanup, ...)
\* a pass that looks at the wrong timestamp
IsStale_Created(t, data) == t > data.createdAt
\* a pass that also removes the link whose deadline is now
IsStale_Inclusive(t, data) == t >= data.expiresAt
\* a pass with the comparison turned round
IsStale_Inverted(t, data) == t < data.expiresAt
IsStale(t, data) == t > data.expiresAt

\* the for-of loop over the Map: entries kept so far, and `cleaned`
RECURSIVE CleanupLoop(_, _, _, _)
CleanupLoop(rest, kept, cleaned, t) ==
  IF rest = <<>> THEN [links |-> kept, cleaned |-> cleaned]
  ELSE IF IsStale(t, Head(rest))
         THEN CleanupLoop(Tail(rest), kept, cleaned + 1, t)
         ELSE CleanupLoop(Tail(rest), Append(kept, Head(rest)), cleaned, t)

Cleanup ==
  /\ now >= nextSweep
  /\ LET r == CleanupLoop(magicLinks, <<>>, 0, now) IN
       /\ magicLinks' = r.links
       /\ res' = [op |-> "cleanup", cleaned |-> r.cleaned]
  /\ nextSweep' = now + CLEANUP_INTERVAL_MS
  /\ UNCHANGED <<now, ticks, issued, hist, loop>>

Next ==
  \/ \E d \in TickSteps : Tick(d)
  \/ \E s \in Secrets, l \in LabelInputs, m \in TtlInputs : Generate(s, l, m)
  \/ \E s \in Secrets : Links(s)
  \/ \E s \in Secrets, t \in Tokens : Revoke(s, t)
  \/ \E t \in Tokens : View(t)
  \/ Cleanup

Spec == Init /\ [][Next]_vars

\* ------------------------------------------------------ the event loop
\* The same handlers statement by statement, as Node runs them: requests and
\* the timer queue callbacks, the loop picks one and runs it until it returns
\* or awaits.

\* does callback `op` hand control back to the loop before statement `pc`?
\* a handler that awaited between its lookup and its expiry check
Yields_AfterGet(op, pc) == op = "view" /\ pc = "check"
\* none of the handlers is async and none awaits
Yields(op, pc) == FALSE

Task(id) == loop.tasks[id]
\* callbacks are queued in the first free slot
FreeSlot(id) ==
  /\ Task(id).op = "none"
  /\ \A j \in TaskIds : j < id => Task(j).op # "none"
Finish(id) == [running |-> 0, tasks |-> [loop.tasks EXCEPT ![id] = NoTask]]
Advance(id, task) ==
  [running |-> IF Yields(task.op, task.pc) THEN 0 ELSE id,
   tasks |-> [loop.tasks EXCEPT ![id] = task]]

\* a request reaches the server
Arrive(id, op, token) ==
  /\ FreeSlot(id)
  /\ loop' = [loop EXCEPT !.tasks[id] =
                [NoTask EXCEPT !.op = op, !.token = token, !.pc = "start"]]
  /\ UNCHANGED <<now, ticks, magicLinks, issued, nextSweep, res, hist>>

\* the cleanup interval elapses
TimerFires(id) ==
  /\ now >= nextSweep
  /\ FreeSlot(id)
  /\ loop' = [loop EXCEPT !.tasks[id] =
                [NoTask EXCEPT !.op = "cleanup", !.pc = "start"]]
  /\ nextSweep' = now + CLEANUP_INTERVAL_MS
  /\ UNCHANGED <<now, ticks, magicLinks, issued, res, hist>>

\* the loop is free and takes a queued (or resumed) callback
Dispatch(id) ==
  /\ loop.running = 0
  /\ Task(id).op # "none"
  /\ loop' = [loop EXCEPT !.running = id]
  /\ UNCHANGED <<now, ticks, magicLinks, issued, nextSweep, res, hist>>

Running(id, op, pc) ==
  loop.running = id /\ Task(id).op = op /\ Task(id).pc = pc

\* const link = magicLinks.get(token); if (!link) return 404
ViewGet(id) ==
  /\ Running(id, "view", "start")
  /\ IF ~MapHas(magicLinks, Task(id).token)
       THEN /\ res' = [op |-> "view", status |-> 404, token |-> Task(id).token]
            /\ loop' = Finish(id)
       ELSE LET link == MapGet(magicLinks, Task(id).token) IN
            /\ link.accessCount < MaxAccess
            /\ loop' = Advance(id, [Task(id) EXCEPT !.pc = "check",
                                                    !.exp = link.expiresAt])
            /\ UNCHANGED res
  /\ UNCHANGED <<now, ticks, magicLinks, issued, nextSweep, hist>>

\* const now = Date.now(); if (now > link.expiresAt) { delete; return 410 }
ViewCheck(id) ==
  /\ Running(id, "view", "check")
  /\ IF IsExpired(now, [expiresAt |-> Task(id).exp])
       THEN /\ magicLinks' = MapDelete(magicLinks, Task(id).token)
            /\ res' = [op |-> "view", status |-> 410, token |-> Task(id).token]
            /\ hist' = [hist EXCEPT ![Task(id).token].expired = @ + 1]
            /\ loop' = Finish(id)
       ELSE /\ loop' = Advance(id, [Task(id) EXCEPT !.pc = "track", !.at = now])
            /\ UNCHANGED <<magicLinks, res, hist>>
  /\ UNCHANGED <<now, ticks, issued, nextSweep>>

\* link.accessCount++ on the object got from the Map, then the page is sent;
\* an object no longer in the Map is bumped out of the registry's sight
ViewTrack(id) ==
  /\ Running(id, "view", "track")
  /\ magicLinks' = IF MapHas(magicLinks, Task(id).token)
                     THEN Increment(magicLinks, Task(id).token)
                     ELSE magicLinks
  /\ res' = [op |-> "view", status |-> 200, token |-> Task(id).token,
             mins |-> MathCeil(Task(id).exp - Task(id).at, 60000),
             exp |-> Task(id).exp]
  /\ hist' = [hist EXCEPT ![Task(id).token].ok = @ + 1]
  /\ loop' = Finish(id)
  /\ UNCHANGED <<now, ticks, issued, nextSweep>>

\* if (magicLinks.has(token)) ... else 404
RevokeHas(id) ==
  /\ Running(id, "revoke", "start")
  /\ IF Revocable(magicLinks, Task(id).token, now)
       THEN /\ loop' = Advance(id, [Task(id) EXCEPT !.pc = "delete"])
            /\ UNCHANGED res
       ELSE /\ res' = [op |-> "revoke", status |-> 404, token |-> Task(id).token]
            /\ loop' = Finish(id)
  /\ UNCHANGED <<now, ticks, magicLinks, issued, nextSweep, hist>>

\* magicLinks.delete(token); return { revoked: true }
RevokeDelete(id) ==
  /\ Running(id, "revoke", "delete")
  /\ magicLinks' = MapDelete(magicLinks, Task(id).token)
  /\ res' = [op |-> "revoke", status |-> 200, token |-> Task(id).token]
  /\ hist' = IF MapHas(magicLinks, Task(id).token)
               THEN Revoked(hist, magicLinks, Task(id).token, now)
               ELSE [hist EXCEPT ![Task(id).token].revoked = @ + 1]
  /\ loop' = Finish(id)
  /\ UNCHANGED <<now, ticks, issued, nextSweep>>

\* const now = Date.now(); let cleaned = 0; the iterator is opened
CleanupStart(id) ==
  /\ Running(id, "cleanup", "start")
  /\ loop' = Advance(id, [Task(id) EXCEPT
                !.pc = "scan", !.at = now,
                !.todo = [i \in 1..Len(magicLinks) |-> magicLinks[i].token]])
  /\ UNCHANGED <<now, ticks, magicLinks, issued, nextSweep, res, hist>>

\* one turn of the for-of loop, on an entry the Map still holds
CleanupVisit(id) ==
  /\ Running(id, "cleanup", "scan")
  /\ Task(id).todo # <<>>
  /\ LET token == Head(Task(id).todo)
         stale == /\ MapHas(magicLinks, token)
                  /\ IsStale(Task(id).at, MapGet(magicLinks, token))
     IN /\ magicLinks' = IF stale THEN MapDelete(magicLinks, token)
                                  ELSE magicLinks
        /\ loop' = Advance(id, [Task(id) EXCEPT
                      !.todo = Tail(@),
                      !.cleaned = IF stale THEN @ + 1 ELSE @])
  /\ UNCHANGED <<now, ticks, issued, nextSweep, res, hist>>

\* the loop is over: the count is logged
CleanupEnd(id) ==
  /\ Running(id, "cleanup", "scan")
  /\ Task(id).todo = <<>>
  /\ res' = [op |-> "cleanup", cleaned |-> Task(id).cleaned]
  /\ loop' = Finish(id)
  /\ UNCHANGED <<now, ticks, magicLinks, issued, nextSweep, hist>>

\* a link is generated while no callback is running: one with the default
\* lifetime, one that lives a minute
LoopTtlInputs == {Undefined, Num(1)}

LoopGenerate(ttlMinutes) ==
  /\ loop.running = 0
  /\ Generate(ADMIN_SECRET, Undefined, ttlMinutes)

NextLoop ==
  \/ \E d \in TickSteps : Tick(d)
  \/ \E m \in LoopTtlInputs : LoopGenerate(m)
  \/ \E id \in TaskIds, op \in {"view", "revoke"}, t \in Tokens :
       Arrive(id, op, t)
  \/ \E id \in TaskIds : TimerFires(id)
  \/ \E id \in TaskIds : Dispatch(id)
  \/ \E id \in TaskIds : ViewGet(id)
  \/ \E id \in TaskIds : ViewCheck(id)
  \/ \E id \in TaskIds : ViewTrack(id)
  \/ \E id \in TaskIds : RevokeHas(id)
  \/ \E id \in TaskIds : RevokeDelete(id)
  \/ \E id \in TaskIds : CleanupStart(id)
  \/ \E id \in TaskIds : CleanupVisit(id)
  \/ \E id \in TaskIds : CleanupEnd(id)

SpecLoop == Init /\ [][NextLoop]_vars

\* ------------------------------------------------- the timer keeps firing
\* The process keeps running: time reaches the moment the cleanup timer is
\* due, and the timer then fires. Time is let run on past the MaxTicks clock
\* advances only while a link past its deadline waits for a pass.
WaitBudget == 2 * MaxTicks + NumTokens + 1

TimerWait ==
  /\ now < nextSweep
  /\ \E i \in 1..Len(magicLinks) : now > magicLinks[i].expiresAt
  /\ ticks < WaitBudget
  /\ now' = nextSweep
  /\ ticks' = ticks + 1
  /\ UNCHANGED <<magicLinks, issued, nextSweep, res, hist, loop>>

\* links are generated, viewed or left alone, and never revoked
NextLive ==
  \/ \E d \in TickSteps : Tick(d)
  \/ TimerWait
  \/ \E m \in TtlInputs : Generate(ADMIN_SECRET, Undefined, m)
  \/ \E t \in Tokens : View(t)
  \/ Cleanup

SpecLive ==
  Init /\ [][NextLive]_vars /\ WF_vars(TimerWait) /\ WF_vars(Cleanup)

\* ================================================================ claims
\* C1: a view of a held link succeeds at every time before expiresAt, and at
\* every time from expiresAt on (the instant expiresAt included) it answers
\* Expired and deletes the link.
C1_ExpiryAtDeadline ==
  [][\A t \in Tokens :
       (View(t) /\ MapHas(magicLinks, t)) =>
         LET link == MapGet(magicLinks, t) IN
           /\ now < link.expiresAt => res'.status = 200
           /\ now >= link.expiresAt =>
                res'.status = 410 /\ ~MapHas(magicLinks', t)]_vars

\* C2: a generate with the right secret and a missing, zero or negative
\* ttlMinutes stores a link that lives exactly 7,200,000 ms.
C2_DefaultTtl ==
  [][\A l \in LabelInputs, m \in TtlInputs :
       ((~m.present \/ m.value <= 0) /\ Generate(ADMIN_SECRET, l, m)) =>
         LET link == MapGet(magicLinks', res'.token) IN
           link.expiresAt - link.createdAt = 7200000]_vars

\* C3: every link held expires strictly after it was created.
C3_ExpiresAfterCreated ==
  \A i \in 1..Len(magicLinks) : magicLinks[i].expiresAt > magicLinks[i].createdAt

\* C4: a link listed by /api/links reports as accessCount the number of views
\* of it answered with the page so far, and a view answered 404 or 410 changes
\* no link's accessCount.
C4_AccessCounting ==
  [][/\ Links(ADMIN_SECRET) =>
            \A j \in 1..Len(res'.activeLinks) :
              res'.activeLinks[j].accessCount
                = hist[res'.activeLinks[j].token].ok
     /\ \A t \in Tokens :
          (View(t) /\ res'.status # 200) =>
            \A u \in MapKeys(magicLinks') :
              MapGet(magicLinks', u).accessCount
                = MapGet(magicLinks, u).accessCount]_vars

\* two views answered with the page are reported as accessCount 2 by a
\* listing, after another link's view was answered Expired
C4_Witness ==
  /\ res.op = "links" /\ res.status = 200
  /\ \E j \in 1..Len(res.activeLinks) :
       /\ res.activeLinks[j].accessCount = 2
       /\ hist[res.activeLinks[j].token].ok = 2
  /\ \E t \in Tokens : hist[t].expired = 1

\* C5: a cleanup pass at time now removes exactly the links with
\* expiresAt <= now, keeps the others, and counts the links it removed.
C5_SweepExact ==
  [][Cleanup =>
       /\ magicLinks' = SelectSeq(magicLinks, LAMBDA e : ~(e.expiresAt <= now))
       /\ res'.cleaned = Len(magicLinks) - Len(magicLinks')]_vars

\* C6: a revoke of a held link with the right secret succeeds and removes it;
\* from then on a revoke of that token answers 404 and a view of it answers
\* 404, whether or not its deadline has passed.
C6_RevokeFinal ==
  [][\A t \in Tokens :
       /\ (MapHas(magicLinks, t) /\ Revoke(ADMIN_SECRET, t)) =>
            res'.status = 200 /\ ~MapHas(magicLinks', t)
       /\ hist[t].revoked > 0 =>
            /\ Revoke(ADMIN_SECRET, t) => res'.status = 404
            /\ View(t) => res'.status = 404]_vars

\* a view answered 404 for a link revoked before any time has passed
C6_Witness ==
  /\ res.op = "view" /\ res.status = 404
  /\ hist[res.token].revoked = 1
  /\ ticks = 0

\* C7: a listing made at time now contains no link held with expiresAt <= now.
C7_ListExcludesExpired ==
  [][Links(ADMIN_SECRET) =>
         \A i \in 1..Len(magicLinks) :
           magicLinks[i].expiresAt <= now =>
             \A j \in 1..Len(res'.activeLinks) :
               res'.activeLinks[j].token # magicLinks[i].token]_vars

\* a listing that leaves out a link still held whose deadline is now
C7_Witness ==
  /\ res.op = "links" /\ res.status = 200
  /\ \E i \in 1..Len(magicLinks) :
       /\ magicLinks[i].expiresAt = now
       /\ \A j \in 1..Len(res.activeLinks) :
            res.activeLinks[j].token # magicLinks[i].token

\* C8: generate, links and revoke called with a secret other than the
\* configured one answer 403 and leave the registry as it was.
C8_BadSecretNoEffect ==
  [][\A s \in Secrets :
       (s # ADMIN_SECRET
          /\ \/ \E l \in LabelInputs, m \in TtlInputs : Generate(s, l, m)
             \/ Links(s)
             \/ \E t \in Tokens : Revoke(s, t)) =>
         res'.status = 403 /\ magicLinks' = magicLinks]_vars

\* a revoke refused while a link is held
C8_Witness ==
  /\ res.op = "revoke" /\ res.status = 403
  /\ Len(magicLinks) > 0

\* C9: a view answered Expired removes the link in that call; every later
\* view or revoke of the token answers 404, so Expired is answered at most
\* once per token.
C9_ExpiredOnce ==
  [][\A t \in Tokens :
       /\ hist'[t].expired <= 1
       /\ (View(t) /\ res'.status = 410) => ~MapHas(magicLinks', t)
       /\ hist[t].expired > 0 =>
            /\ View(t) => res'.status = 404
            /\ Revoke(ADMIN_SECRET, t) => res'.status = 404]_vars

\* a view answered 404 for a token whose earlier view was answered Expired
C9_Witness ==
  /\ res.op = "view" /\ res.status = 404
  /\ hist[res.token].expired = 1

C11_AtomicCallbacks ==
  [][/\ \A id \in TaskIds :
          (loop'.tasks[id].op # "none" /\ loop'.tasks[id].pc # "start") =>
            loop'.running = id
     /\ \A i \in 1..Len(magicLinks') :
          magicLinks'[i].accessCount = hist'[magicLinks'[i].token].ok
     /\ \A id \in TaskIds :
          ViewTrack(id) =>
            /\ MapHas(magicLinks, Task(id).token)
            /\ MapGet(magicLinks', Task(id).token).accessCount
                 = MapGet(magicLinks, Task(id).token).accessCount + 1]_vars

\* of views of one token queued together with a revoke, one was answered with
\* the page, the revoke ran, the next was answered 404 and one is still queued
C11_Witness ==
  /\ res.op = "view" /\ res.status = 404
  /\ hist[res.token].ok >= 1
  /\ hist[res.token].revoked = 1
  /\ \E id \in TaskIds : Task(id).op = "view" /\ Task(id).token = res.token

\* C12: a revoke with the right secret answers 200 and deletes the link
\* whenever the registry holds the token, a link past its deadline and not yet
\* swept included; it answers 404 exactly when the token is not held.
C12_RevokeIgnoresExpiry ==
  [][\A t \in Tokens :
       Revoke(ADMIN_SECRET, t) =>
         /\ res'.status \in {200, 404}
         /\ res'.status = 404 <=> ~MapHas(magicLinks, t)
         /\ MapHas(magicLinks, t) =>
              res'.status = 200 /\ ~MapHas(magicLinks', t)]_vars

\* a revoke answered 200 for a link that was past its deadline
C12_Witness ==
  /\ res.op = "revoke" /\ res.status = 200
  /\ hist[res.token].late = 1
  /\ ~MapHas(magicLinks, res.token)

\* C13: a listing changes nothing: the registry after it is the registry
\* before it, links past their deadline included.
C13_ListIsPureRead ==
  [][\A s \in Secrets :
       Links(s) =>
         /\ magicLinks' = magicLinks
         /\ <<now, issued, nextSweep, hist>>' = <<now, issued, nextSweep, hist>>
    ]_vars

\* a listing made while the registry holds a viewed link past its deadline,
\* which it leaves out and leaves in place
C13_Witness ==
  /\ res.op = "links" /\ res.status = 200
  /\ \E i \in 1..Len(magicLinks) :
       /\ magicLinks[i].expiresAt < now
       /\ magicLinks[i].accessCount >= 1
       /\ \A j \in 1..Len(res.activeLinks) :
            res.activeLinks[j].token # magicLinks[i].token

\* C15: a cleanup pass at time now leaves every link with now < expiresAt in
\* the registry, with all its fields as they were.
C15_SweepKeepsActive ==
  [][Cleanup =>
       \A i \in 1..Len(magicLinks) :
         now < magicLinks[i].expiresAt =>
           \E j \in 1..Len(magicLinks') : magicLinks'[j] = magicLinks[i]]_vars

\* a pass that removed a link and kept a viewed link whose deadline is ahead
C15_Witness ==
  /\ res.op = "cleanup" /\ res.cleaned >= 1
  /\ \E i \in 1..Len(magicLinks) :
       magicLinks[i].expiresAt > now /\ magicLinks[i].accessCount >= 1

\* C16: for a link held at time now, a view answers Expired exactly when a
\* cleanup pass run at that now would remove the link.
C16_LazyEagerAgree ==
  [][\A t \in Tokens :
       (MapHas(magicLinks, t) /\ View(t)) =>
         (res'.status = 410
            <=> ~MapHas(CleanupLoop(magicLinks, <<>>, 0, now).links, t))]_vars

\* a view answered with the page at the very deadline of a link, with the
\* cleanup timer due: the pass would keep the link as well
C16_Witness ==
  /\ res.op = "view" /\ res.status = 200 /\ res.exp = now
  /\ now >= nextSweep
  /\ MapHas(magicLinks, res.token)
  /\ MapHas(CleanupLoop(magicLinks, <<>>, 0, now).links, res.token)

\* C17: at every time now a token is in the listing exactly when a view of it
\* at that now is answered with the page; at now = expiresAt neither is.
C17_ListAgreesWithView ==
  [][\A t \in Tokens :
       View(t) =>
         (res'.status = 200
            <=> \E j \in 1..Len(ActiveLinks(magicLinks, now)) :
                  ActiveLinks(magicLinks, now)[j].token = t)]_vars

\* C18: with time running on and the cleanup timer firing, a link held past
\* its deadline is eventually out of the registry, looked up or not.
C18_EventuallySwept ==
  \A t \in Tokens :
    (MapHas(magicLinks, t) /\ now > MapGet(magicLinks, t).expiresAt)
      ~> ~MapHas(magicLinks, t)

\* a pass removed a link that no view and no revoke had ever been answered for
C18_Witness ==
  /\ res.op = "cleanup" /\ res.cleaned >= 1
  /\ \E t \in issued :
       /\ ~MapHas(magicLinks, t)
       /\ hist[t] = [ok |-> 0, expired |-> 0, revoked |-> 0, late |-> 0]

\* C19: from one state to the next a link that stays in the registry keeps its
\* createdAt, expiresAt and label, and its accessCount does not decrease.
C19_FieldsFrozen ==
  [][\A t \in Tokens :
       (MapHas(magicLinks, t) /\ MapHas(magicLinks', t)) =>
         LET old == MapGet(magicLinks, t)
             new == MapGet(magicLinks', t)
         IN /\ new.createdAt = old.createdAt
            /\ new.expiresAt = old.expiresAt
            /\ new.label = old.label
            /\ new.accessCount >= old.accessCount]_vars

\* a labelled link viewed twice, some time after it was generated
C19_Witness ==
  /\ res.op = "view" /\ res.status = 200
  /\ MapHas(magicLinks, res.token)
  /\ LET link == MapGet(magicLinks, res.token)
     IN /\ link.accessCount = 2
        /\ link.label = "Acme"
        /\ link.createdAt < now
        /\ link.expiresAt = res.exp

\* C20: a view or a revoke of token X leaves every link with another token,
\* the ones past their deadline included, in the registry and unchanged.
C20_OtherLinksUntouched ==
  [][\A t \in Tokens :
       (View(t) \/ \E s \in Secrets : Revoke(s, t)) =>
         \A u \in MapKeys(magicLinks) \ {t} :
           /\ MapHas(magicLinks', u)
           /\ MapGet(magicLinks', u) = MapGet(magicLinks, u)]_vars

\* a revoke answered 200 with a viewed link of another token, past its
\* deadline, still held
C20_Witness ==
  /\ res.op = "revoke" /\ res.status = 200
  /\ \E i \in 1..Len(magicLinks) :
       /\ magicLinks[i].token # res.token
       /\ magicLinks[i].expiresAt < now
       /\ magicLinks[i].accessCount >= 1

\* ------------------------------- POST /api/generate, deadline out of range
\* A Date holds times up to 8.64e15 ms. A ttlMinutes whose deadline lies
\* beyond that is a number the integers here cannot hold: FarTtl stands for
\* its ttl, a deadline past every time a behaviour reaches.
FarTtl == 1000000000

\* The handler on such a ttlMinutes: the link is stored, then
\* new Date(now + ttl).toISOString() throws RangeError before res.json, and
\* the framework answers 500.
GenerateOutOfRange(secret, label) ==
  /\ IF ~SecretOk(secret)
       THEN /\ res' = Forbidden("generate")
            /\ UNCHANGED <<magicLinks, issued>>
       ELSE \E token \in Tokens :
            /\ RandomUUID(token)
            /\ magicLinks' = MapSet(magicLinks, token,
                                    [createdAt |-> now,
                                     expiresAt |-> now + FarTtl,
                                     label |-> ResolveLabel(label),
                                     accessCount |-> 0])
            /\ issued' = issued \cup {token}
            /\ res' = [op |-> "generate", status |-> 500]
  /\ UNCHANGED <<now, ticks, nextSweep, hist, loop>>

NextRange ==
  \/ Next
  \/ \E s \in Secrets, l \in LabelInputs : GenerateOutOfRange(s, l)

SpecRange == Init /\ [][NextRange]_vars

\* C21: a generate with the right secret is answered 200 and leaves the
\* registry with exactly one more link, under a token not held before, with
\* accessCount 0 and with the label of the request, "Unnamed" when the
\* request has no label; the links held before stay as they were.
C21_CreateAlwaysSucceeds ==
  [][\A l \in LabelInputs :
       ((\E m \in TtlInputs : Generate(ADMIN_SECRET, l, m))
          \/ GenerateOutOfRange(ADMIN_SECRET, l)) =>
         /\ res'.status = 200
         /\ Len(magicLinks') = Len(magicLinks) + 1
         /\ SubSeq(magicLinks', 1, Len(magicLinks)) = magicLinks
         /\ LET link == magicLinks'[Len(magicLinks')]
            IN /\ ~MapHas(magicLinks, link.token)
               /\ link.accessCount = 0
               /\ link.label = IF l.present THEN l.value ELSE "Unnamed"]_vars

\* C22: every link of a listing made at time now reports as remainingMinutes
\* (expiresAt - now) / 60000 rounded to the nearest whole number, halves up:
\* (expiresAt - now + 30000) div 60000, expiresAt being the link's deadline.
C22_RemainingRounded ==
  [][Links(ADMIN_SECRET) =>
       \A j \in 1..Len(res'.activeLinks) :
         LET item == res'.activeLinks[j]
             link == MapGet(magicLinks, item.token)
         IN /\ ParseISO(item.expiresAt) = link.expiresAt
            /\ item.remainingMinutes =
                 (link.expiresAt - now + 30000) \div 60000]_vars

\* a listing with a link that has exactly half a minute left, reported as 1
C22_Witness ==
  /\ res.op = "links" /\ res.status = 200
  /\ \E j \in 1..Len(res.activeLinks) :
       /\ ParseISO(res.activeLinks[j].expiresAt) - now = 30000
       /\ res.activeLinks[j].remainingMinutes = 1
====
